---------------------------- MODULE Spec2Model ----------------------------
(***************************************************************************)
(* A model of backend/app/main.py: the /simplify request handler, the      *)
(* legal-document gate, the remote (Groq) analyzer with its response       *)
(* parser, and the rule-based fallback analyzer.                           *)
(*                                                                         *)
(* Python strings are modelled as sequences of code points; a code point   *)
(* is written as a one-character TLA+ string, except the warning sign      *)
(* U+26A0 and the variation selector U+FE0F, which are written by name.    *)
(* Texts that the code only passes around (risk messages, definitions,     *)
(* error messages, the summary template) are TLA+ strings.                 *)
(***************************************************************************)
EXTENDS Integers, Sequences, FiniteSets, TLC

VARIABLES GROQ_API_KEY, pc, data, text, posted, invoked, failure, reply, response, ret

vars == <<GROQ_API_KEY, pc, data, text, posted, invoked, failure, reply, response, ret>>

(***************************************************************************)
(* Bounds of the model.                                                    *)
(***************************************************************************)
\* A request text is made of at most MaxFrags fragments of the pool.
MaxFrags == 3
\* A remote reply's content is made of at most MaxChunks chunks.
MaxChunks == 4

(***************************************************************************)
(* Python's str operations.                                                *)
(***************************************************************************)
UpperToLower ==
  ("A" :> "a") @@ ("B" :> "b") @@ ("C" :> "c") @@ ("D" :> "d") @@ ("E" :> "e") @@
  ("F" :> "f") @@ ("G" :> "g") @@ ("H" :> "h") @@ ("I" :> "i") @@ ("J" :> "j") @@
  ("K" :> "k") @@ ("L" :> "l") @@ ("M" :> "m") @@ ("N" :> "n") @@ ("O" :> "o") @@
  ("P" :> "p") @@ ("Q" :> "q") @@ ("R" :> "r") @@ ("S" :> "s") @@ ("T" :> "t") @@
  ("U" :> "u") @@ ("V" :> "v") @@ ("W" :> "w") @@ ("X" :> "x") @@ ("Y" :> "y") @@
  ("Z" :> "z")

\* str.lower(), on the code points the model uses
str_lower(s) ==
  SubSeq([i \in 1..Len(s) |-> IF s[i] \in DOMAIN UpperToLower THEN UpperToLower[s[i]] ELSE s[i]],
         1, Len(s))

IsSpace(c) == c \in {" ", "\n", "\t", "\r"}

RECURSIVE str_lstrip(_)
\* str.lstrip()
str_lstrip(s) == IF s # <<>> /\ IsSpace(s[1]) THEN str_lstrip(Tail(s)) ELSE s

RECURSIVE str_rstrip(_)
\* str.rstrip()
str_rstrip(s) ==
  IF s # <<>> /\ IsSpace(s[Len(s)]) THEN str_rstrip(SubSeq(s, 1, Len(s) - 1)) ELSE s

\* str.strip(): leading and trailing whitespace removed
str_strip(s) == str_rstrip(str_lstrip(s))

\* k occurs in s at position i
OccursAt(s, k, i) ==
  /\ i >= 1
  /\ i + Len(k) - 1 <= Len(s)
  /\ \A j \in 1..Len(k) : s[i + j - 1] = k[j]

\* Python's `k in s` for strings: k is a substring of s
Contains(s, k) == \E i \in 1..(Len(s) - Len(k) + 1) : OccursAt(s, k, i)

\* s[:n]
Take(s, n) == IF Len(s) <= n THEN s ELSE SubSeq(s, 1, n)

RECURSIVE Join(_, _)
\* sep.join(parts)
Join(parts, sep) ==
  IF parts = <<>> THEN <<>>
  ELSE IF Len(parts) = 1 THEN parts[1]
  ELSE parts[1] \o sep \o Join(Tail(parts), sep)

RECURSIVE SplitFrom(_, _, _, _)
\* the pieces of s from position `start` on, `at` being the positions where
\* sep occurs in s
SplitFrom(s, sep, at, start) ==
  LET ahead == {p \in at : p >= start}
  IN  IF ahead = {} THEN << SubSeq(s, start, Len(s)) >>
      ELSE LET p == CHOOSE q \in ahead : \A r \in ahead : q <= r
           IN  << SubSeq(s, start, p - 1) >> \o SplitFrom(s, sep, at, p + Len(sep))

\* str.split(sep): the pieces between the non-overlapping occurrences of sep,
\* found left to right
str_split(s, sep) ==
  SplitFrom(s, sep, {i \in 1..(Len(s) - Len(sep) + 1) : OccursAt(s, sep, i)}, 1)

(***************************************************************************)
(* The request texts of the model.                                         *)
(***************************************************************************)
Fragments == <<
  <<>>,
  <<"P","e","n","a","l","t","y"," ","P","a","y","m","e","n","t">>,
  <<"A","g","r","e","e","m","e","n","t">>,
  <<"t","e","r","m","i","n","a","t","e","d">>,
  <<"l","e","g","a","l"," ","b","i","n","d","i","n","g"," ","t","e","r","m","s">>,
  <<"C","O","N","F","I","D","E","N","T","I","A","L","I","T","Y">>,
  <<"A","r","b","i","t","r","a","t","i","o","n">>,
  <<"T","e","r","m","i","n","a","t","i","o","n"," ","o","f"," ","L","i","a","b","i","l","i","t","y">>,
  <<"J","u","r","i","s","d","i","c","t","i","o","n"," ","F","o","r","c","e"," ","M","a","j","e","u","r","e">>,
  <<"I","n","d","e","m","n","i","f","y"," ","B","r","e","a","c","h"," ","W","a","r","r","a","n","t","y">>,
  <<"L","e","a","s","e">>,
  <<"S","e","r","v","i","c","e","s">>,
  <<"E","m","p","l","o","y","m","e","n","t">>,
  <<"N","o","n","-","D","i","s","c","l","o","s","u","r","e">>,
  <<"c","u","r","r","e","n","t","l","y">>,
  <<>> >>

\* the example contract of the specification
SampleContract ==
  <<"T","h","i","s"," ","A","g","r","e","e","m","e","n","t"," ","m","a","y"," ","b","e"," ","t","e","r","m","i","n","a","t","e","d"," ","b","y"," ","e","i","t","h","e","r"," ","p","a","r","t","y"," ","w","i","t","h"," ","3","0"," ","d","a","y","s"," ","n","o","t","i","c","e","."," ","T","h","e"," ","i","n","d","e","m","n","i","f","y","i","n","g"," ","p","a","r","t","y"," ","s","h","a","l","l"," ","b","e"," ","l","i","a","b","l","e"," ","f","o","r"," ","a","l","l"," ","d","a","m","a","g","e","s","."," ","D","i","s","p","u","t","e","s"," ","s","h","a","l","l"," ","b","e"," ","r","e","s","o","l","v","e","d"," ","b","y"," ","b","i","n","d","i","n","g"," ","a","r","b","i","t","r","a","t","i","o","n",".">>

\* the example of a text that is no legal document
SampleHello == <<"H","e","l","l","o",","," ","h","o","w"," ","a","r","e"," ","y","o","u"," ","t","o","d","a","y","?">>

RECURSIVE PickFrom(_, _)
\* the fragments with an index in S, in the pool's order
PickFrom(S, i) ==
  IF i > Len(Fragments) THEN <<>>
  ELSE (IF i \in S THEN << Fragments[i] >> ELSE <<>>) \o PickFrom(S, i + 1)

Texts ==
  { Join(PickFrom(S, 1), <<" ">>) :
      S \in {T \in SUBSET (1..Len(Fragments)) : Cardinality(T) <= MaxFrags} }
  \cup {SampleContract, SampleHello}

(***************************************************************************)
(* is_legal_document                                                       *)
(***************************************************************************)
legal_keywords == <<
  <<"a","g","r","e","e","m","e","n","t">>, <<"c","o","n","t","r","a","c","t">>, <<"p","a","r","t","y">>, <<"p","a","r","t","i","e","s">>, <<"t","e","r","m","s">>, <<"c","o","n","d","i","t","i","o","n","s">>,
  <<"l","i","a","b","i","l","i","t","y">>, <<"b","r","e","a","c","h">>, <<"t","e","r","m","i","n","a","t","e">>, <<"c","l","a","u","s","e">>, <<"l","e","g","a","l">>, <<"b","i","n","d","i","n","g">>,
  <<"j","u","r","i","s","d","i","c","t","i","o","n">>, <<"a","r","b","i","t","r","a","t","i","o","n">>, <<"i","n","d","e","m","n","i","f","y">>, <<"w","a","r","r","a","n","t","y">>, <<"c","o","n","f","i","d","e","n","t","i","a","l">>,
  <<"h","e","r","e","i","n">>, <<"t","h","e","r","e","o","f">>, <<"w","h","e","r","e","b","y">>, <<"w","h","e","r","e","a","s">>, <<"p","u","r","s","u","a","n","t">>, <<"n","o","t","w","i","t","h","s","t","a","n","d","i","n","g">>,
  <<"o","b","l","i","g","a","t","i","o","n","s">>, <<"r","i","g","h","t","s">>, <<"r","e","s","p","o","n","s","i","b","i","l","i","t","i","e","s">>, <<"c","o","v","e","n","a","n","t">>, <<"u","n","d","e","r","t","a","k","e">> >>

\* sum(1 for keyword in legal_keywords if keyword in text_lower)
legal_matches(t) ==
  LET text_lower == str_lower(t)
  IN  Cardinality({i \in 1..Len(legal_keywords) : Contains(text_lower, legal_keywords[i])})

\* a variant of is_legal_document that asks for 4 keywords
is_legal_document_Threshold4(t) == legal_matches(t) >= 4

is_legal_document(t) == legal_matches(t) >= 3

(***************************************************************************)
(* detect_risks_rule_based                                                 *)
(***************************************************************************)
\* risk_patterns, in the dict's insertion order; every message starts with the
\* warning sign, left out here
risk_patterns == <<
  [keyword |-> <<"t","e","r","m","i","n","a","t","i","o","n">>,
   message |-> "**Cancellation Terms**: Document includes termination clauses. Check notice period and exit fees carefully."],
  [keyword |-> <<"l","i","a","b","i","l","i","t","y">>,
   message |-> "**Financial Risk**: Contains liability provisions that may hold you responsible for damages or losses."],
  [keyword |-> <<"p","e","n","a","l","t","y">>,
   message |-> "**Penalties**: Financial penalties are specified for non-compliance or late payments."],
  [keyword |-> <<"b","i","n","d","i","n","g">>,
   message |-> "**Legally Binding**: This is a binding contract. Breaking it could lead to legal consequences."],
  [keyword |-> <<"i","n","d","e","m","n","i","f","y">>,
   message |-> "**Indemnification**: You may have to compensate the other party for certain losses."],
  [keyword |-> <<"a","r","b","i","t","r","a","t","i","o","n">>,
   message |-> "**Arbitration Clause**: Disputes will be resolved through arbitration, not regular courts."],
  [keyword |-> <<"c","o","n","f","i","d","e","n","t","i","a","l","i","t","y">>,
   message |-> "**Confidentiality**: Contains non-disclosure requirements that restrict information sharing."],
  [keyword |-> <<"p","a","y","m","e","n","t">>,
   message |-> "**Payment Obligations**: Specific payment terms and deadlines are outlined."] >>

\* the risks given when no pattern matched
default_risks == <<
  "Always verify the other party's identity and credentials before signing.",
  "Understand all payment terms, due dates, and late payment consequences.",
  "Check for automatic renewal clauses or cancellation procedures." >>

RECURSIVE risks_loop(_, _, _)
\* for keyword, message in risk_patterns.items(): from the i-th item on
risks_loop(text_lower, i, risks) ==
  IF i > Len(risk_patterns) THEN risks
  ELSE risks_loop(text_lower, i + 1,
         IF Contains(text_lower, risk_patterns[i].keyword) /\ Len(risks) < 3
         THEN Append(risks, risk_patterns[i].message)
         ELSE risks)

\* a variant of detect_risks_rule_based that keeps every matched category
detect_risks_rule_based_NoCap(t) ==
  LET risks == SelectSeq(risk_patterns, LAMBDA p : Contains(str_lower(t), p.keyword))
  IN  IF risks = <<>> THEN default_risks
      ELSE SubSeq([i \in 1..Len(risks) |-> risks[i].message], 1, Len(risks))

\* a variant of detect_risks_rule_based that stops at the first match
detect_risks_rule_based_FirstOnly(t) ==
  LET risks == SelectSeq(risk_patterns, LAMBDA p : Contains(str_lower(t), p.keyword))
  IN  IF risks = <<>> THEN default_risks ELSE << risks[1].message >>

detect_risks_rule_based(t) ==
  LET risks == risks_loop(str_lower(t), 1, <<>>)
  IN  Take(IF risks = <<>> THEN default_risks ELSE risks, 3)

(***************************************************************************)
(* extract_legal_terms                                                     *)
(***************************************************************************)
\* all_terms, in the dict's insertion order
all_terms == <<
  [term |-> <<"I","n","d","e","m","n","i","f","y">>,
   definition |-> "A promise to compensate the other party for losses. Can be expensive."],
  [term |-> <<"L","i","a","b","i","l","i","t","y">>,
   definition |-> "Being responsible if something goes wrong. You might have to pay damages."],
  [term |-> <<"B","r","e","a","c","h">>,
   definition |-> "Breaking the contract rules. Can lead to penalties or lawsuits."],
  [term |-> <<"T","e","r","m","i","n","a","t","i","o","n">>,
   definition |-> "Ending the contract. Check how and when you can do this."],
  [term |-> <<"C","o","n","s","i","d","e","r","a","t","i","o","n">>,
   definition |-> "What each side gives (money, work, goods) to make the contract valid."],
  [term |-> <<"F","o","r","c","e"," ","M","a","j","e","u","r","e">>,
   definition |-> "Unexpected events (disasters, wars) that excuse non-performance."],
  [term |-> <<"A","r","b","i","t","r","a","t","i","o","n">>,
   definition |-> "Solving disputes outside court with a neutral person. Usually final."],
  [term |-> <<"C","o","n","f","i","d","e","n","t","i","a","l">>,
   definition |-> "Private information you can't share. Breaking this can get you sued."],
  [term |-> <<"W","a","r","r","a","n","t","y">>,
   definition |-> "A promise that something will work as expected. Get fixes or refunds if not."],
  [term |-> <<"J","u","r","i","s","d","i","c","t","i","o","n">>,
   definition |-> "Which state or country's laws apply and where cases will be heard."] >>

RECURSIVE pad_loop(_, _, _)
\* for term, definition in list(all_terms.items())[:5]: from the i-th item on
pad_loop(first, i, found_terms) ==
  IF i > Len(first) THEN found_terms
  ELSE pad_loop(first, i + 1,
         IF \A j \in 1..Len(found_terms) : found_terms[j] # first[i]
         THEN Append(found_terms, first[i])
         ELSE found_terms)

\* a variant of extract_legal_terms that pads without skipping the terms found
extract_legal_terms_PadAll(t) ==
  LET text_lower  == str_lower(t)
      found_terms == SelectSeq(all_terms, LAMBDA e : Contains(text_lower, str_lower(e.term)))
  IN  Take(IF Len(found_terms) < 5
           THEN found_terms \o Take(all_terms, 5)
           ELSE found_terms, 5)

extract_legal_terms(t) ==
  LET text_lower  == str_lower(t)
      found_terms == SelectSeq(all_terms, LAMBDA e : Contains(text_lower, str_lower(e.term)))
  IN  Take(IF Len(found_terms) < 5
           THEN pad_loop(Take(all_terms, 5), 1, found_terms)
           ELSE found_terms, 5)

(***************************************************************************)
(* analyze_rule_based                                                      *)
(***************************************************************************)
\* a variant of doc_type that looks for "service" first
doc_type_ServiceFirst(t) ==
  IF Contains(str_lower(t), <<"s","e","r","v","i","c","e">>) THEN "service agreement"
  ELSE IF Contains(str_lower(t), <<"l","e","a","s","e">>) \/ Contains(str_lower(t), <<"r","e","n","t">>)
       THEN "lease agreement"
  ELSE IF Contains(str_lower(t), <<"e","m","p","l","o","y","m","e","n","t">>) THEN "employment contract"
  ELSE "legal document"

\* the doc_type chosen at the head of analyze_rule_based
doc_type(t) ==
  IF Contains(str_lower(t), <<"l","e","a","s","e">>) \/ Contains(str_lower(t), <<"r","e","n","t">>)
  THEN "lease agreement"
  ELSE IF Contains(str_lower(t), <<"e","m","p","l","o","y","m","e","n","t">>) THEN "employment contract"
  ELSE IF Contains(str_lower(t), <<"s","e","r","v","i","c","e">>) THEN "service agreement"
  ELSE "legal document"

\* the f-string of the summary
summary_of(dt) ==
  "This " \o dt \o " sets out the rules and responsibilities for both parties. "
  \o "Before signing, make sure you understand when you can cancel, what happens if something goes wrong, and how disagreements will be resolved."

analyze_rule_based(t) ==
  [summary  |-> summary_of(doc_type(t)),
   risks    |-> detect_risks_rule_based(t),
   glossary |-> extract_legal_terms(t)]

(***************************************************************************)
(* Direct calls of the rule-based functions, one call per behaviour.       *)
(***************************************************************************)
NoResponse == [status |-> 0]
NoReply == [kind |-> "none"]
NoReturn == [fn |-> "none"]

InitRules ==
  /\ GROQ_API_KEY = "None"
  /\ pc = "call"
  /\ data \in Texts
  /\ text = <<>>
  /\ posted = <<>>
  /\ invoked = <<>>
  /\ failure = "none"
  /\ reply = NoReply
  /\ response = NoResponse
  /\ ret = NoReturn

Call_is_legal_document ==
  /\ pc = "call"
  /\ pc' = "returned"
  /\ ret' = [fn |-> "is_legal_document", val |-> is_legal_document(data)]
  /\ UNCHANGED <<GROQ_API_KEY, data, text, posted, invoked, failure, reply, response>>

Call_detect_risks_rule_based ==
  /\ pc = "call"
  /\ pc' = "returned"
  /\ ret' = [fn |-> "detect_risks_rule_based", val |-> detect_risks_rule_based(data)]
  /\ UNCHANGED <<GROQ_API_KEY, data, text, posted, invoked, failure, reply, response>>

Call_extract_legal_terms ==
  /\ pc = "call"
  /\ pc' = "returned"
  /\ ret' = [fn |-> "extract_legal_terms", val |-> extract_legal_terms(data)]
  /\ UNCHANGED <<GROQ_API_KEY, data, text, posted, invoked, failure, reply, response>>

Call_analyze_rule_based ==
  /\ pc = "call"
  /\ pc' = "returned"
  /\ ret' = [fn |-> "analyze_rule_based", val |-> analyze_rule_based(data)]
  /\ UNCHANGED <<GROQ_API_KEY, data, text, posted, invoked, failure, reply, response>>

NextRules ==
  \/ Call_is_legal_document
  \/ Call_detect_risks_rule_based
  \/ Call_extract_legal_terms
  \/ Call_analyze_rule_based

SpecRules == InitRules /\ [][NextRules]_vars

(***************************************************************************)
(* Properties of the rule-based functions, under SpecRules.                *)
(***************************************************************************)
Returned(fn) == pc = "returned" /\ ret.fn = fn

\* keyword k occurs in t at position i, letter case ignored on both sides
OccursAtIgnoringCase(t, k, i) ==
  /\ i + Len(k) - 1 <= Len(t)
  /\ \A j \in 1..Len(k) : str_lower(<< t[i + j - 1] >>) = str_lower(<< k[j] >>)

\* the distinct keywords of the legal vocabulary that t contains as
\* case-insensitive substrings
KeywordsContained(t) ==
  { k \in {legal_keywords[i] : i \in 1..Len(legal_keywords)} :
      \E i \in 1..Len(t) : OccursAtIgnoringCase(t, k, i) }

\* C3: is_legal_document returns true exactly for the texts that contain at
\* least 3 distinct keywords of the legal vocabulary as case-insensitive
\* substrings, and false for those that contain at most 2.
C3_ClassifierIsCountAtLeast3 ==
  Returned("is_legal_document") =>
    /\ Cardinality(KeywordsContained(data)) >= 3 => ret.val = TRUE
    /\ Cardinality(KeywordsContained(data)) <= 2 => ret.val = FALSE

C3_Witness ==
  /\ Returned("is_legal_document")
  /\ ret.val = TRUE
  /\ Cardinality(KeywordsContained(data)) = 3
  /\ data # str_lower(data)

\* the canonical message of the risk category with this keyword
message_of(keyword) ==
  risk_patterns[CHOOSE i \in 1..Len(risk_patterns) : risk_patterns[i].keyword = keyword].message

\* C6 (as claimed): for the example contract the classifier returns true and
\* the rule-based risk list holds the termination, liability and arbitration
\* messages, in catalog order, capped at 3.
C6_SampleRisksAsClaimed ==
  data = SampleContract =>
    /\ Returned("is_legal_document") => ret.val = TRUE
    /\ Returned("detect_risks_rule_based") =>
         /\ Len(ret.val) <= 3
         /\ \E i, j, k \in 1..Len(ret.val) :
              /\ i < j /\ j < k
              /\ ret.val[i] = message_of(<<"t","e","r","m","i","n","a","t","i","o","n">>)
              /\ ret.val[j] = message_of(<<"l","i","a","b","i","l","i","t","y">>)
              /\ ret.val[k] = message_of(<<"a","r","b","i","t","r","a","t","i","o","n">>)

\* C6 (amended): for the example contract the classifier returns true and the
\* rule-based risk list is exactly the binding, indemnify and arbitration
\* messages, in catalog order: the text holds "terminated" and "liable", which
\* contain neither "termination" nor "liability".
C6_SampleRisksAmended ==
  data = SampleContract =>
    /\ Returned("is_legal_document") => ret.val = TRUE
    /\ Returned("detect_risks_rule_based") =>
         ret.val = << message_of(<<"b","i","n","d","i","n","g">>), message_of(<<"i","n","d","e","m","n","i","f","y">>),
                      message_of(<<"a","r","b","i","t","r","a","t","i","o","n">>) >>

C6_Witness == data = SampleContract /\ Returned("detect_risks_rule_based")

\* the risk categories whose keyword occurs in the lower-cased text, in
\* catalog order
MatchedCategories(t) ==
  SelectSeq(risk_patterns, LAMBDA p : Contains(str_lower(t), p.keyword))

\* C7: detect_risks_rule_based returns the messages of the first (at most
\* three) matched risk categories in catalog order, no message twice, and the
\* fixed default list when no category matched.
C7_RisksFirstThreeInCatalogOrder ==
  Returned("detect_risks_rule_based") =>
    LET matched == MatchedCategories(data)
        n       == IF Len(matched) < 3 THEN Len(matched) ELSE 3
    IN  /\ matched = <<>> => ret.val = default_risks
        /\ matched # <<>> =>
             /\ Len(ret.val) = n
             /\ \A i \in 1..n : ret.val[i] = matched[i].message
        /\ \A i, j \in 1..Len(ret.val) : i # j => ret.val[i] # ret.val[j]

C7_Witness ==
  /\ Returned("detect_risks_rule_based")
  /\ Len(MatchedCategories(data)) > 3
  /\ Len(ret.val) = 3

\* the catalog entries of the terms that occur in the text, case ignored, in
\* the catalog's insertion order
TermsOccurring(t) ==
  SelectSeq(all_terms, LAMBDA e : Contains(str_lower(t), str_lower(e.term)))

RECURSIVE PadFromCatalog(_, _)
\* the specified padding: entries appended from the start of the catalog,
\* those already included skipped, until 5 are reached or the catalog ends
PadFromCatalog(entries, i) ==
  IF Len(entries) >= 5 \/ i > Len(all_terms) THEN entries
  ELSE PadFromCatalog(IF \E j \in 1..Len(entries) : entries[j].term = all_terms[i].term
                      THEN entries
                      ELSE Append(entries, all_terms[i]), i + 1)

\* C8: extract_legal_terms returns what the specified procedure returns: the
\* occurring terms in catalog order, padded from the start of the catalog to 5
\* if fewer, capped at 5; and no term appears twice.
C8_GlossaryIsSpecifiedProcedure ==
  Returned("extract_legal_terms") =>
    /\ ret.val = Take(PadFromCatalog(TermsOccurring(data), 1), 5)
    /\ \A i, j \in 1..Len(ret.val) : i # j => ret.val[i].term # ret.val[j].term

C8_Witness ==
  /\ Returned("extract_legal_terms")
  /\ Len(TermsOccurring(data)) \in 1..4
  /\ \E i \in 6..Len(all_terms) : Contains(str_lower(data), str_lower(all_terms[i].term))

RECURSIVE FirstHint(_, _, _, _)
\* the label of the first entry of `table` one of whose hints occurs in the
\* lower-cased text, `otherwise` when there is none
FirstHint(t, table, i, otherwise) ==
  IF i > Len(table) THEN otherwise
  ELSE IF \E h \in table[i].hints : Contains(str_lower(t), h) THEN table[i].label
  ELSE FirstHint(t, table, i + 1, otherwise)

\* the hints of the source's branches
SourceHints == <<
  [hints |-> {<<"l","e","a","s","e">>, <<"r","e","n","t">>}, label |-> "lease agreement"],
  [hints |-> {<<"e","m","p","l","o","y","m","e","n","t">>},         label |-> "employment contract"],
  [hints |-> {<<"s","e","r","v","i","c","e">>},            label |-> "service agreement"] >>

\* the priority list as claimed, with a branch for the hints of a
\* non-disclosure agreement
ClaimedHints ==
  SourceHints \o << [hints |-> {<<"n","o","n","-","d","i","s","c","l","o","s","u","r","e">>, <<"n","d","a">>},
                     label |-> "non-disclosure agreement"] >>

\* C9 (as claimed): the document type of the rule-based summary is the first
\* match of lease/rent, employment, service, NDA hints, otherwise "legal
\* document".
C9_DocTypeAsClaimed ==
  Returned("analyze_rule_based") =>
    ret.val.summary = summary_of(FirstHint(data, ClaimedHints, 1, "legal document"))

\* C9 (amended): the document type of the rule-based summary is the first
\* match of lease/rent, employment, service, otherwise "legal document"; there
\* is no branch for a non-disclosure agreement.
C9_DocTypeAmended ==
  Returned("analyze_rule_based") =>
    /\ ret.val.summary = summary_of(FirstHint(data, SourceHints, 1, "legal document"))
    /\ ret.val.summary # summary_of("non-disclosure agreement")

C9_Witness ==
  /\ Returned("analyze_rule_based")
  /\ Contains(str_lower(data), <<"s","e","r","v","i","c","e">>)
  /\ Contains(str_lower(data), <<"e","m","p","l","o","y","m","e","n","t">>)
  /\ ~Contains(str_lower(data), <<"r","e","n","t">>)
  /\ ~Contains(str_lower(data), <<"l","e","a","s","e">>)
  /\ ret.val.summary = summary_of("employment contract")

(***************************************************************************)
(* analyze_with_groq: the reply of the remote service and its parsing.     *)
(***************************************************************************)
\* the warning sign of the prompt: U+26A0 followed by U+FE0F
WarningGlyph == <<"U+26A0","U+FE0F">>

\* the pieces a reply's content is made of in the model, joined by line breaks
Chunks == <<
  <<"S","U","M","M","A","R","Y",":"," ","T","h","i","s"," ","l","e","a","s","e"," ","b","i","n","d","s"," ","b","o","t","h"," ","p","a","r","t","i","e","s",".">>,
  <<"S","U","M","M","A","R","Y",":"," ","T","h","i","s"," ","l","e","a","s","e"," ","b","i","n","d","s"," ","t","w","o"," ","p","a","r","t","i","e","s",".">>,
  <<"R","I","S","K","S",":">>,
  <<"U+26A0","U+FE0F"," ","f","e","e","s","\n","U+26A0","U+FE0F"," ","r","e","n","e","w","a","l">>,
  <<"U+26A0","U+FE0F"," ","n","o"," ","e","x","i","t">>,
  <<"U+26A0"," ","d","e","p","o","s","i","t">>,
  <<>> >>

RECURSIVE ChunkSeqs(_)
\* the sequences of at most n chunk indices
ChunkSeqs(n) ==
  IF n = 0 THEN { <<>> }
  ELSE ChunkSeqs(n - 1) \cup
       { Append(q, c) : q \in {r \in ChunkSeqs(n - 1) : Len(r) = n - 1}, c \in 1..Len(Chunks) }

ContentOf(q) == Join(SubSeq([i \in 1..Len(q) |-> Chunks[q[i]]], 1, Len(q)), <<"\n">>)

\* every content of at most MaxChunks chunks
Contents == { ContentOf(q) : q \in ChunkSeqs(MaxChunks) }

\* the contents the request handler is run against
SampleContents ==
  { ContentOf(q) : q \in { <<1, 3, 4, 5>>, <<1, 3, 4, 4>>, <<3, 5, 4, 1>>, <<2, 3, 4, 5>>,
                           <<1, 3, 4, 6>>, <<1, 4, 5>>, <<3, 4, 5>>, <<>> } }

\* what requests.post and response.json() can give: an exception of requests,
\* or an HTTP response whose body is no JSON, JSON without
\* choices[0].message.content, or JSON with that content
RepliesWith(contents) ==
  { [kind |-> "raises", error |-> e] : e \in {"ConnectionError", "Timeout"} }
  \cup { [kind |-> "http", status |-> st, json |-> "invalid"] : st \in {200, 401, 429, 500} }
  \cup { [kind |-> "http", status |-> 200, json |-> "no content"] }
  \cup { [kind |-> "http", status |-> 200, json |-> "content", content |-> c] : c \in contents }

\* summary as parsed from response_text
groq_summary(response_text) ==
  IF Contains(response_text, <<"S","U","M","M","A","R","Y",":">>)
  THEN str_strip(str_split(str_split(response_text, <<"S","U","M","M","A","R","Y",":">>)[2], <<"R","I","S","K","S",":">>)[1])
  ELSE <<>>

\* risk_lines as parsed from response_text
groq_risk_lines(response_text) ==
  IF Contains(response_text, <<"R","I","S","K","S",":">>)
  THEN LET risks_section == str_strip(str_split(response_text, <<"R","I","S","K","S",":">>)[2])
           lines == str_split(risks_section, <<"\n">>)
           kept  == SelectSeq(lines, LAMBDA line :
                                str_strip(line) # <<>> /\ Contains(line, WarningGlyph))
       IN  SubSeq([i \in 1..Len(kept) |-> str_strip(kept[i])], 1, Len(kept))
  ELSE <<>>

\* a variant of groq_risks without the [:3]
groq_risks_NoCap(response_text) == groq_risk_lines(response_text)

\* risks = risk_lines[:3]
groq_risks(response_text) == Take(groq_risk_lines(response_text), 3)

Raise(message) == [ok |-> FALSE, error |-> message]

\* a variant of groq_validate that accepts two risks
groq_validate_TwoRisksEnough(summary, risks) ==
  IF summary = <<>> \/ Len(summary) < 30 THEN Raise("Groq response too short")
  ELSE IF Len(risks) < 2 THEN Raise("Not enough risks from Groq")
  ELSE [ok |-> TRUE, summary |-> summary, risks |-> risks]

\* the two checks before `return summary, risks`
groq_validate(summary, risks) ==
  IF summary = <<>> \/ Len(summary) < 30 THEN Raise("Groq response too short")
  ELSE IF Len(risks) < 3 THEN Raise("Not enough risks from Groq")
  ELSE [ok |-> TRUE, summary |-> summary, risks |-> risks]

\* analyze_with_groq from the return of requests.post on
groq_result(r) ==
  IF r.kind = "raises" THEN Raise(r.error)
  ELSE IF r.status # 200 THEN Raise("Groq API failed")
  ELSE IF r.json = "invalid" THEN Raise("JSONDecodeError")
  ELSE IF r.json = "no content" THEN Raise("KeyError")
  ELSE groq_validate(groq_summary(r.content), groq_risks(r.content))

(***************************************************************************)
(* The /simplify request handler.                                          *)
(***************************************************************************)
\* os.getenv("GROQ_API_KEY"): unset, empty or a key
KeyValues == {"None", "", "gsk_key"}

\* a variant of key_missing: the key is not looked at
key_missing_NeverChecked == FALSE

\* `if not GROQ_API_KEY`
key_missing == GROQ_API_KEY \in {"None", ""}

JSONResponse(status_code, error) == [status |-> status_code, body |-> [error |-> error]]

Success(summary, risks, glossary) ==
  [status |-> 200,
   body   |-> [summary |-> summary, redFlags |-> risks, glossary |-> glossary]]

\* `except Exception as e` of analyze_with_ai: every failure of
\* analyze_with_groq is caught
\* a variant of except_Exception that catches the exceptions of requests only
except_Exception_RequestErrorsOnly(error) == error \in {"ConnectionError", "Timeout"}

except_Exception(error) == TRUE

Init ==
  /\ GROQ_API_KEY \in KeyValues
  /\ pc = "idle"
  /\ data = <<>>
  /\ text = <<>>
  /\ posted = <<>>
  /\ invoked = <<>>
  /\ failure = "none"
  /\ reply = NoReply
  /\ response = NoResponse
  /\ ret = NoReturn

\* a variant of simplify_text without the strip()
simplify_text_Unstripped(d) == d

\* text = data.text.strip()
simplify_text(d) == str_strip(d)

\* simplify_legal_text up to the call of analyze_with_ai
Simplify(requests) ==
  /\ pc = "idle"
  /\ \E d \in requests :
       LET t == simplify_text(d)
       IN  /\ data' = d
           /\ text' = t
           /\ IF t = <<>> \/ Len(t) < 20
              THEN /\ response' = JSONResponse(400, "Text is too short. Please provide a valid document.")
                   /\ pc' = "done"
              ELSE IF ~is_legal_document(t)
              THEN /\ response' = JSONResponse(400, "This doesn't appear to be a legal document. Please upload contracts, agreements, or legal letters only.")
                   /\ pc' = "done"
              ELSE /\ response' = NoResponse
                   /\ pc' = "analyze_with_ai"
  /\ UNCHANGED <<GROQ_API_KEY, posted, invoked, failure, reply, ret>>

\* analyze_with_ai calls analyze_with_groq, which raises without a key and
\* otherwise posts the prompt and waits for the reply
GroqStart ==
  /\ pc = "analyze_with_ai"
  /\ invoked' = invoked \o <<"analyze_with_ai", "analyze_with_groq">>
  /\ IF key_missing
     THEN /\ failure' = "Groq not available"
          /\ pc' = "fallback"
          /\ posted' = posted
     ELSE /\ posted' = Append(posted, [model   |-> "llama-3.3-70b-versatile",
                                        text    |-> Take(text, 3000),
                                        timeout |-> 30])
          /\ pc' = "requests.post"
          /\ failure' = failure
  /\ UNCHANGED <<GROQ_API_KEY, data, text, reply, response, ret>>

\* requests.post returns or raises; analyze_with_groq parses and validates;
\* analyze_with_ai returns the result with the glossary, or catches the failure
GroqReturn(replies) ==
  /\ pc = "requests.post"
  /\ \E r \in replies :
       LET result == groq_result(r)
       IN  /\ reply' = r
           /\ IF result.ok
              THEN /\ invoked' = Append(invoked, "extract_legal_terms")
                   /\ response' = Success(result.summary, result.risks, extract_legal_terms(text))
                   /\ failure' = failure
                   /\ pc' = "done"
              ELSE IF except_Exception(result.error)
              THEN /\ invoked' = invoked
                   /\ response' = response
                   /\ failure' = result.error
                   /\ pc' = "fallback"
              ELSE /\ invoked' = invoked
                   /\ response' = JSONResponse(500, "Analysis failed: " \o result.error)
                   /\ failure' = result.error
                   /\ pc' = "done"
  /\ UNCHANGED <<GROQ_API_KEY, data, text, posted, ret>>

\* the fallback of analyze_with_ai: return analyze_rule_based(text)
RuleBased ==
  /\ pc = "fallback"
  /\ LET result == analyze_rule_based(text)
     IN  response' = Success(result.summary, result.risks, result.glossary)
  /\ invoked' = Append(invoked, "analyze_rule_based")
  /\ pc' = "done"
  /\ UNCHANGED <<GROQ_API_KEY, data, text, posted, failure, reply, ret>>

\* the response is sent; the process waits for the next request
Respond ==
  /\ pc = "done"
  /\ pc' = "idle"
  /\ data' = <<>>
  /\ text' = <<>>
  /\ posted' = <<>>
  /\ invoked' = <<>>
  /\ failure' = "none"
  /\ reply' = NoReply
  /\ response' = NoResponse
  /\ UNCHANGED <<GROQ_API_KEY, ret>>

Next ==
  \/ Simplify(Texts)
  \/ GroqStart
  \/ GroqReturn(RepliesWith(SampleContents))
  \/ RuleBased
  \/ Respond

Spec == Init /\ [][Next]_vars

\* the handler's control moves on from a call in progress
Proceeds ==
  /\ pc \in {"analyze_with_ai", "requests.post", "fallback"}
  /\ pc' \in {"requests.post", "fallback", "done"}

\* a request that has started is carried through: the handler runs without
\* waiting for anything but requests.post, which returns or raises within its
\* timeout. Stated as weak fairness of the handler's control: from a call in
\* progress pc is always able to change, and under Next it changes only by
\* GroqStart, GroqReturn or RuleBased
FairSpec == Spec /\ WF_pc(Proceeds)

\* the handler with one legal text and a key, against every content
NextGroq ==
  \/ Simplify({Fragments[10]})
  \/ GroqStart
  \/ GroqReturn(RepliesWith(Contents))
  \/ RuleBased
  \/ Respond

InitGroq == Init /\ GROQ_API_KEY = "gsk_key"

SpecGroq == InitGroq /\ [][NextGroq]_vars


(***************************************************************************)
(* Properties of the request handler.                                      *)
(***************************************************************************)
\* the request was answered by the remote path
ViaRemote == pc = "done" /\ response.status = 200 /\ failure = "none"

\* the request was answered after a failure of the remote analyzer
AfterFailure == pc = "done" /\ failure # "none"

\* C1: whenever the remote analyzer fails, for whatever reason, the request is
\* answered 200 with exactly what analyze_rule_based gives for the same text:
\* its non-empty summary, its risks as redFlags and its glossary.
C1_FailureGivesRuleBasedResult ==
  AfterFailure =>
    LET direct == analyze_rule_based(text)
    IN  /\ response.status = 200
        /\ DOMAIN response.body = {"summary", "redFlags", "glossary"}
        /\ response.body.summary = direct.summary
        /\ Len(response.body.summary) > 0
        /\ response.body.redFlags = direct.risks
        /\ response.body.glossary = direct.glossary

C1_Witness ==
  /\ AfterFailure
  /\ failure = "Not enough risks from Groq"
  /\ response.status = 200
  /\ response.body.redFlags = detect_risks_rule_based(text)

\* the request text is rejected by the gates of /simplify
Rejected(d) ==
  LET trimmed == str_strip(d)
  IN  trimmed = <<>> \/ Len(trimmed) < 20 \/ ~is_legal_document(trimmed)

\* C2: a request whose trimmed text is empty, shorter than 20 characters or
\* no legal document is answered 400 with only an error object, and nothing
\* was analyzed for it: no analyzer was invoked and nothing was posted.
C2_RejectedBeforeAnyAnalysis ==
  pc # "idle" /\ Rejected(data) =>
    /\ pc = "done"
    /\ response.status = 400
    /\ DOMAIN response.body = {"error"}
    /\ invoked = <<>>
    /\ posted = <<>>
    /\ reply = NoReply

C2_Witness ==
  /\ pc = "done"
  /\ response.status = 400
  /\ Len(data) >= 20
  /\ Len(str_strip(data)) < 20
  /\ is_legal_document(data)

\* C4: every successful analysis, by the remote path or by the fallback, has
\* at most 3 redFlags and exactly 5 glossary entries.
C4_ResultSizes ==
  pc = "done" /\ response.status = 200 =>
    /\ Len(response.body.redFlags) <= 3
    /\ Len(response.body.glossary) <= 5
    /\ Len(response.body.glossary) >= 5

C4_Witness ==
  /\ ViaRemote
  /\ Len(groq_risk_lines(reply.content)) > 3
  /\ Len(response.body.redFlags) = 3
  /\ Len(response.body.glossary) = 5

\* the reply carries a content to parse
HasContent == reply.kind = "http" /\ reply.status = 200 /\ reply.json = "content"

\* C5: the remote analyzer returns a result only when the parsed summary has
\* at least 30 characters and the parsed risk list has exactly 3 entries; in
\* every other case it raises, so no other result of the remote path reaches
\* the caller.
C5_RemoteResultIsValidated ==
  /\ ViaRemote =>
       /\ HasContent
       /\ Len(response.body.summary) >= 30
       /\ Len(response.body.redFlags) = 3
       /\ \A i \in 1..3 : Contains(response.body.redFlags[i], WarningGlyph)
  /\ HasContent =>
       LET summary == groq_summary(reply.content)
           risks   == groq_risks(reply.content)
       IN  IF Len(summary) >= 30 /\ Len(risks) = 3
           THEN /\ ViaRemote
                /\ response.body.summary = summary
                /\ response.body.redFlags = risks
           ELSE /\ failure \in {"Groq response too short", "Not enough risks from Groq"}
                /\ pc \in {"fallback", "done"}
                /\ pc = "done" => invoked[Len(invoked)] = "analyze_rule_based"

C5_Witness ==
  /\ ViaRemote
  /\ Len(response.body.summary) = 30
  /\ Len(groq_risk_lines(reply.content)) = 3

\* how often fn was invoked in this request
Invocations(fn) == Cardinality({i \in 1..Len(invoked) : invoked[i] = fn})

\* no API credential is configured: the variable is unset or empty
NoCredential == GROQ_API_KEY = "None" \/ GROQ_API_KEY = ""

C10_AtMostOneCall ==
  /\ Len(posted) <= 1
  /\ Invocations("analyze_with_groq") <= 1
  /\ NoCredential => posted = <<>>
  /\ pc = "done" => response.status \in {200, 400}

C10_NoRetry ==
  /\ pc = "requests.post" => posted' = posted /\ pc' \in {"fallback", "done"}
  /\ pc = "fallback" =>
       /\ posted' = posted
       /\ pc' = "done"
       /\ invoked' = Append(invoked, "analyze_rule_based")
       /\ response'.status = 200

\* C10: a request makes at most one outbound call; after a failure of the
\* remote analyzer the next step is the rule-based analyzer, with no second
\* call; without a credential no call is made at all; and the request ends
\* with a response.
C10_OneCallNoRetryAndResponse ==
  /\ []C10_AtMostOneCall
  /\ [][C10_NoRetry]_vars
  /\ (pc = "analyze_with_ai") ~> (pc = "done")

C10_Witness ==
  /\ pc = "done"
  /\ failure = "Timeout"
  /\ Len(posted) = 1
  /\ response.status = 200

==========================================================================
